---------------------------- MODULE Spec2Model ----------------------------
(***************************************************************************)
(* A model of the zlint command (cmd/zlint main: flag handling, registry   *)
(* selection, the per-file lint loop and the -summary results table) and   *)
(* of three lints of the lints package.                                    *)
(*                                                                         *)
(* Four specifications share the module:                                   *)
(*   SpecRT    the results table resultsTable.newRT builds                 *)
(*   SpecRT2   the same, with newRT called twice on one result set         *)
(*   SpecLint  CheckApplies / RunTest of the three lints on a certificate  *)
(*   SpecMain  main, setLints and doLint as a sequential process           *)
(***************************************************************************)
EXTENDS Integers, Sequences, FiniteSets, TLC

VARIABLES
    \* ---- results table (SpecRT)
    results,      \* zlint.ResultSet.Results: lint name -> status
    threshold,    \* newRT's threshold argument
    longSummary,  \* newRT's longSummary argument (the verbose flag)
    rt,           \* the table of the first newRT call ("none" before it)
    rt2,          \* the table of a second newRT call on the same arguments
    rtpc,         \* "start", "once", "twice"
    \* ---- lints (SpecLint)
    cert,         \* the parsed certificate
    lintOut,      \* lint name -> [applies, result] once the lints have run
    \* ---- main (SpecMain)
    flags,        \* the command-line flags
    args,         \* flag.Args(): the file arguments, each with its file
    stdin,        \* what standard input holds
    pc,           \* main's position
    idx,          \* index of the next file argument of main's loop
    setLintsOut,  \* what setLints gave main
    events        \* what the process did so far, in order

rtVars   == <<results, threshold, longSummary, rt, rt2, rtpc>>
lintVars == <<cert, lintOut>>
mainVars == <<flags, args, stdin, pc, idx, setLintsOut, events>>
vars     == <<results, threshold, longSummary, rt, rt2, rtpc,
              cert, lintOut, flags, args, stdin, pc, idx, setLintsOut, events>>

-----------------------------------------------------------------------------
(* Bounds                                                                  *)

\* number of lints that may have an entry in a result set
MaxLints == 2
\* number of file arguments on the command line
MaxFiles == 2
\* number of extensions of a certificate
MaxExts == 2

-----------------------------------------------------------------------------
(* lint.LintStatus: the ordered severity enumeration                       *)

Reserved == 0
NA       == 1
NE       == 2
Pass     == 3
Notice   == 4
Warn     == 5
Error    == 6
Fatal    == 7

LintStatus == {Reserved, NA, NE, Pass, Notice, Warn, Error, Fatal}

\* lint.StatusLabelToLintStatus: label -> status, one entry per level
StatusLabelToLintStatus ==
    [l \in {"reserved", "NA", "NE", "pass", "info", "warn", "error", "fatal"} |->
        CASE l = "reserved" -> Reserved
          [] l = "NA"       -> NA
          [] l = "NE"       -> NE
          [] l = "pass"     -> Pass
          [] l = "info"     -> Notice
          [] l = "warn"     -> Warn
          [] l = "error"    -> Error
          [] l = "fatal"    -> Fatal]

-----------------------------------------------------------------------------
(* Go maps and slices                                                      *)

EmptyMap == <<>>

\* m[k] for a Go map: the zero value when k is no key
MapGet(m, k, zero) == IF k \in DOMAIN m THEN m[k] ELSE zero

\* m[k] = v for a Go map
MapPut(m, k, v) == [x \in (DOMAIN m) \cup {k} |-> IF x = k THEN v ELSE m[x]]

\* the values of a map
MapValues(m) == {m[k] : k \in DOMAIN m}

\* every order in which `for ... range` may visit the keys S of a map
Orders(S) ==
    {f \in [1..Cardinality(S) -> S] :
        \A i, j \in 1..Cardinality(S) : i # j => f[i] # f[j]}

\* the ascending enumeration of a finite set of integers
RECURSIVE Asc(_)
Asc(S) ==
    IF S = {} THEN <<>>
    ELSE LET m == CHOOSE x \in S : \A y \in S : x <= y
         IN  <<m>> \o Asc(S \ {m})

Reverse(s) == [i \in 1..Len(s) |-> s[Len(s) + 1 - i]]

\* the order a range over the integer keys S of a map takes, for the loop
\* whose outcome the code makes independent of it (it sorts what it
\* collected): seed 0 gives the ascending enumeration, seed 1 the descending
RangeOrder(S, seed) ==
    IF seed = 0 THEN Asc(S) ELSE Reverse(Asc(S))

RangeSeeds == {0, 1}

\* sort.Ints: insertion of each element into an ascending slice
RECURSIVE InsertSorted(_, _)
InsertSorted(s, x) ==
    IF s = <<>> THEN <<x>>
    ELSE IF x <= Head(s) THEN <<x>> \o s
    ELSE <<Head(s)>> \o InsertSorted(Tail(s), x)

RECURSIVE SortInts(_)
SortInts(s) ==
    IF s = <<>> THEN <<>>
    ELSE InsertSorted(SortInts(Tail(s)), Head(s))

-----------------------------------------------------------------------------
(* resultsTable and newRT                                                  *)

\* resultsTable{}: every field nil
EmptyRT ==
    [resultCount              |-> EmptyMap,
     resultDetails            |-> EmptyMap,
     lintLevelsAboveThreshold |-> EmptyMap,
     sortedLevels             |-> <<>>]

\* "Make the list of lint levels that matter": the map int(i) -> i of the
\* statuses of StatusLabelToLintStatus above the threshold
LevelsAboveThreshold(t) ==
    LET above == {i \in MapValues(StatusLabelToLintStatus) : ~(i <= t)}
    IN  [k \in above |-> k]

\* "Set all of the levels to 0 events"
ZeroCounts(levels) == [level \in MapValues(levels) |-> 0]

\* "Count up the number of each event": the loop over results.Results, which
\* visits the lint names in the order `visit`
RECURSIVE CountResults(_, _, _, _, _)
CountResults(r, t, res, long, visit) ==
    IF visit = <<>> THEN r
    ELSE LET lintName == Head(visit)
             status   == res[lintName]
             counted  ==
                 IF status > t
                 THEN [r EXCEPT
                         !.resultCount =
                             MapPut(r.resultCount, status,
                                    MapGet(r.resultCount, status, 0) + 1),
                         !.resultDetails =
                             IF long
                             THEN MapPut(r.resultDetails, status,
                                         Append(MapGet(r.resultDetails, status, <<>>),
                                                lintName))
                             ELSE r.resultDetails]
                 ELSE r
         IN  CountResults(counted, t, res, long, Tail(visit))

\* "Sort the levels we have": the keys of resultCount, in the order the range
\* takes, are appended to sortedLevels, which is then sorted
SortLevels(r, seed) ==
    [r EXCEPT !.sortedLevels =
        SortInts(r.sortedLevels \o RangeOrder(DOMAIN r.resultCount, seed))]

\* the three maps newRT makes, and the levels that matter
InitRT(r, t) ==
    LET levels == LevelsAboveThreshold(t)
    IN  [r EXCEPT !.resultCount = ZeroCounts(levels),
                  !.resultDetails = EmptyMap,
                  !.lintLevelsAboveThreshold = levels]

\* newRT whose counting loop tests Status >= threshold
NewRTCountAtThreshold(r, t, res, long, visit, seed) ==
    SortLevels(CountResults(InitRT(r, t), t - 1, res, long, visit), seed)

\* newRT without the sort.Ints call
NewRTUnsorted(r, t, res, long, visit, seed) ==
    LET r2 == CountResults(InitRT(r, t), t, res, long, visit)
    IN  [r2 EXCEPT !.sortedLevels =
            r2.sortedLevels \o RangeOrder(DOMAIN r2.resultCount, seed)]

\* newRT that records the details whatever longSummary says
NewRTAlwaysDetails(r, t, res, long, visit, seed) ==
    SortLevels(CountResults(InitRT(r, t), t, res, TRUE, visit), seed)

\* resultsTable.newRT(threshold, results, longSummary). visit is the order the
\* range over results.Results takes, seed that of the range over resultCount.
newRT(r, t, res, long, visit, seed) ==
    SortLevels(CountResults(InitRT(r, t), t, res, long, visit), seed)

-----------------------------------------------------------------------------
(* The results-table process: outputSummary's call resultsTable{}.newRT,   *)
(* made twice on the same result set                                       *)

LintNames == 1..MaxLints

\* the result sets: one entry per lint that ran
ResultSets ==
    UNION {[names -> LintStatus] : names \in SUBSET LintNames}

\* values of the variables a specification does not use
IdleRT ==
    /\ results = EmptyMap /\ threshold = Pass /\ longSummary = FALSE
    /\ rt = "none" /\ rt2 = "none" /\ rtpc = "idle"
IdleLint == cert = "none" /\ lintOut = <<>>
IdleMain ==
    /\ flags = "none" /\ args = <<>> /\ stdin = "none" /\ pc = "idle"
    /\ idx = 0 /\ setLintsOut = "none" /\ events = <<>>

InitRTProc ==
    /\ results \in ResultSets
    /\ threshold \in LintStatus
    /\ longSummary \in BOOLEAN
    /\ rt = "none" /\ rt2 = "none" /\ rtpc = "start"
    /\ IdleLint /\ IdleMain

\* rt := resultsTable{}.newRT(threshold, results, longSummary)
Summarize ==
    /\ rtpc = "start"
    /\ \E visit \in Orders(DOMAIN results), seed \in RangeSeeds :
          rt' = newRT(EmptyRT, threshold, results, longSummary, visit, seed)
    /\ rtpc' = "once"
    /\ UNCHANGED <<results, threshold, longSummary, rt2>>
    /\ UNCHANGED lintVars /\ UNCHANGED mainVars

\* the same call again, on the same result set
SummarizeAgain ==
    /\ rtpc = "once"
    /\ \E visit \in Orders(DOMAIN results), seed \in RangeSeeds :
          rt2' = newRT(EmptyRT, threshold, results, longSummary, visit, seed)
    /\ rtpc' = "twice"
    /\ UNCHANGED <<results, threshold, longSummary, rt>>
    /\ UNCHANGED lintVars /\ UNCHANGED mainVars

NextRT == Summarize

SpecRT == InitRTProc /\ [][NextRT]_vars

\* two calls on the same result set
NextRT2 == Summarize \/ SummarizeAgain

SpecRT2 == InitRTProc /\ [][NextRT2]_vars

-----------------------------------------------------------------------------
(* Properties of the results table                                         *)

RTBuilt == rtpc \in {"once", "twice"}

\* the lints of the result set whose status is S
WithStatus(S) == {n \in DOMAIN results : results[n] = S}

Range(s) == {s[i] : i \in DOMAIN s}

\* C1: newRT reports a result iff its severity strictly exceeds the
\* threshold: every severity S > T is a key of resultCount whose count is the
\* number of results of status S, and no severity <= T is a key of
\* resultCount or of resultDetails, so no such result is counted anywhere.
C1_CountsAboveThreshold ==
    RTBuilt =>
        /\ \A S \in LintStatus :
              S > threshold =>
                  /\ S \in DOMAIN rt.resultCount
                  /\ rt.resultCount[S] = Cardinality(WithStatus(S))
        /\ \A S \in DOMAIN rt.resultCount : S > threshold
        /\ \A S \in DOMAIN rt.resultDetails : S > threshold

\* a table built from results on both sides of a threshold that some result
\* sits exactly on
C1_Witness ==
    /\ RTBuilt
    /\ \E n, m \in DOMAIN results :
          /\ results[n] > threshold
          /\ results[m] = threshold
          /\ rt.resultCount[results[n]] = 1

\* C2: sortedLevels of a table built from resultsTable{} is strictly
\* ascending, and holds exactly the known levels above the threshold and the
\* levels with a non-zero count; a known level above the threshold that no
\* result has is listed with the count 0.
C2_SortedLevels ==
    RTBuilt =>
        LET sl    == rt.sortedLevels
            known == {S \in MapValues(StatusLabelToLintStatus) : S > threshold}
        IN  /\ \A i, j \in DOMAIN sl : i < j => sl[i] < sl[j]
            /\ Range(sl) =
                 known \cup {S \in DOMAIN rt.resultCount : rt.resultCount[S] # 0}
            /\ \A S \in known :
                  WithStatus(S) = {} => S \in Range(sl) /\ rt.resultCount[S] = 0

\* threshold Pass, an Error but no warning: Warn is listed with count 0
C2_Witness ==
    /\ RTBuilt
    /\ threshold = Pass
    /\ WithStatus(Warn) = {} /\ WithStatus(Error) # {}
    /\ rt.sortedLevels = <<Notice, Warn, Error, Fatal>>
    /\ rt.resultCount[Warn] = 0

\* C3: with longSummary, resultDetails[S] of every severity S above the
\* threshold lists exactly the lints of status S, each once, as many as
\* resultCount[S]; without it resultDetails is empty, and the counts are
\* those of the verbose case (a function of the results and threshold alone).
C3_Details ==
    RTBuilt =>
        /\ \A S \in LintStatus :
              S > threshold =>
                  rt.resultCount[S] = Cardinality(WithStatus(S))
        /\ longSummary =>
              \A S \in LintStatus :
                  S > threshold =>
                      LET d == MapGet(rt.resultDetails, S, <<>>)
                      IN  /\ Range(d) = WithStatus(S)
                          /\ Len(d) = Cardinality(WithStatus(S))
                          /\ Len(d) = rt.resultCount[S]
        /\ ~longSummary => rt.resultDetails = EmptyMap

\* a verbose table with two lints of one severity
C3_Witness ==
    /\ RTBuilt
    /\ longSummary
    /\ \E S \in DOMAIN rt.resultDetails :
          Len(rt.resultDetails[S]) = 2 /\ rt.resultCount[S] = 2

\* C4: two newRT calls on the same result set, threshold and verbosity give
\* identical tables, whatever order the result set is visited in.
C4_SameTable == rtpc = "twice" => rt2 = rt

-----------------------------------------------------------------------------
(* Certificates                                                            *)

PostalCodeOID       == "2.5.4.17"
OrganizationNameOID == "2.5.4.10"
CommonNameOID       == "2.5.4.3"
NameConstOID        == "2.5.29.30"
BasicConstOID       == "2.5.29.19"
EvPolicyOID         == "2.23.140.1.1"
DvPolicyOID         == "2.23.140.1.2.1"

\* the policy identifiers that mark a certificate as Extended Validation
EvOIDs == {EvPolicyOID}

\* a nil error
Nil == "nil"

\* a pointer: nil, or the address of a value
NilPtr     == <<>>
AddrOf(v)  == <<v>>
Deref(ptr) == ptr[1]

\* time.Time as its UTC date and its second of the day
Time(y, m, d, s) == [year |-> y, month |-> m, day |-> d, sec |-> s]

isLeap(year) == year % 4 = 0 /\ (year % 100 # 0 \/ year % 400 = 0)

\* days in the years before `year`, counted from 1970
daysSinceEpoch(year) ==
    LET leapsBefore(y) == ((y - 1) \div 4) - ((y - 1) \div 100) + ((y - 1) \div 400)
    IN  365 * (year - 1970) + leapsBefore(year) - leapsBefore(1970)

\* daysBefore[m]: days of a non-leap year before month m
daysBefore == <<0, 31, 59, 90, 120, 151, 181, 212, 243, 273, 304, 334, 365>>

\* time.Date: the month is normalised into the year, then the days before
\* the year, before the month and before the day are added, so a day past the
\* end of its month runs on into the next. The result is the instant, in
\* seconds.
Date(year, month, day, sec) ==
    LET m0 == month - 1
        y  == year + (m0 \div 12)
        m  == (m0 % 12) + 1
        d  == daysSinceEpoch(y) + daysBefore[m]
                + (IF isLeap(y) /\ m >= 3 THEN 1 ELSE 0)
                + (day - 1)
    IN  d * 86400 + sec

\* the instant of a Time
Unix(t) == Date(t.year, t.month, t.day, t.sec)

\* t.AddDate(years, months, days), as an instant
AddDate(t, years, months, days) ==
    Date(t.year + years, t.month + months, t.day + days, t.sec)

\* a.Before(b) on instants
Before(a, b) == a < b

\* util.TypeInName: whether the name has an attribute of the type
TypeInName(name, oid) == oid \in name

\* util.IsEv: whether some policy identifier is an EV policy
IsEv(policies) == \E p \in policies : p \in EvOIDs

\* util.IsSubCA: a CA certificate that is not self-signed
IsSubCA(c) == c.isCA /\ ~c.selfSigned

\* util.GetExtFromCert: the first extension with the identifier, or nil
GetExtFromCert(c, oid) ==
    LET hits == {i \in DOMAIN c.extensions : c.extensions[i].Id = oid}
    IN  IF hits = {} THEN NilPtr
        ELSE AddrOf(c.extensions[CHOOSE i \in hits : \A j \in hits : i <= j])

\* util.IsExtInCert
IsExtInCert(c, oid) == GetExtFromCert(c, oid) # NilPtr

\* what a RunTest call gives: ResultStruct{Result: r} and a nil error
Result(r) == [Result |-> r, err |-> Nil, panic |-> FALSE]

\* a RunTest call that dereferenced a nil pointer returns nothing
Panic == [Result |-> Reserved, err |-> Nil, panic |-> TRUE]

-----------------------------------------------------------------------------
(* lints/lint_subject_postal_without_org.go                                *)

postalNoOrg_CheckApplies(c) == TRUE

\* RunTest that looks for the organization only
postalNoOrg_RunTestOrgOnly(c) ==
    IF ~TypeInName(c.subject, OrganizationNameOID)
    THEN Result(Error)
    ELSE Result(Pass)

postalNoOrg_RunTest(c) ==
    IF TypeInName(c.subject, PostalCodeOID)
         /\ ~TypeInName(c.subject, OrganizationNameOID)
    THEN Result(Error)
    ELSE Result(Pass)

(* lints/lint_ev_valid_time_too_long.go                                    *)

evValidTooLong_CheckApplies(c) == IsEv(c.policies)

\* RunTest that also rejects a validity of exactly 27 months
evValidTooLong_RunTestNotAfter(c) ==
    IF ~Before(Unix(c.NotAfter), AddDate(c.NotBefore, 2, 3, 0))
    THEN Result(Error)
    ELSE Result(Pass)

evValidTooLong_RunTest(c) ==
    IF Before(AddDate(c.NotBefore, 2, 3, 0), Unix(c.NotAfter))
    THEN Result(Error)
    ELSE Result(Pass)

(* lints/lint_sub_ca_name_constraints_not_critical.go                      *)

\* CheckApplies that does not look for the extension
SubCANameConstraintsNotCritical_CheckAppliesAnySubCA(c) == IsSubCA(c)

SubCANameConstraintsNotCritical_CheckApplies(c) ==
    IsSubCA(c) /\ IsExtInCert(c, NameConstOID)

\* ski.Critical of a nil ski is a nil dereference
SubCANameConstraintsNotCritical_RunTest(c) ==
    LET ski == GetExtFromCert(c, NameConstOID)
    IN  IF ski = NilPtr THEN Panic
        ELSE IF Deref(ski).Critical THEN Result(Pass)
        ELSE Result(Warn)

\* the names the three init() functions register
RegisteredLints ==
    {"ev_valid_time_too_long",
     "sub_ca_name_constraints_not_critical",
     "subject_postal_without_org"}

CheckApplies(name, c) ==
    CASE name = "ev_valid_time_too_long" -> evValidTooLong_CheckApplies(c)
      [] name = "sub_ca_name_constraints_not_critical" ->
             SubCANameConstraintsNotCritical_CheckApplies(c)
      [] name = "subject_postal_without_org" -> postalNoOrg_CheckApplies(c)

RunTest(name, c) ==
    CASE name = "ev_valid_time_too_long" -> evValidTooLong_RunTest(c)
      [] name = "sub_ca_name_constraints_not_critical" ->
             SubCANameConstraintsNotCritical_RunTest(c)
      [] name = "subject_postal_without_org" -> postalNoOrg_RunTest(c)

\* one rule on one certificate: RunTest is called only where CheckApplies holds
ExecuteTest(name, c) ==
    IF CheckApplies(name, c)
    THEN [applies |-> TRUE, result |-> RunTest(name, c)]
    ELSE [applies |-> FALSE, result |-> Result(NA)]

-----------------------------------------------------------------------------
(* The lint process: every registered lint is run on the certificate       *)

\* sequences over S of length at most n
SeqUpTo(S, n) == UNION {[1..k -> S] : k \in 0..n}

Extensions ==
    [Id : {NameConstOID, BasicConstOID}, Critical : BOOLEAN]

SubjectTypes == {PostalCodeOID, OrganizationNameOID, CommonNameOID}

NotBefores ==
    {Time(y, m, d, s) :
        y \in {2019, 2020}, m \in {1, 11}, d \in {1, 30}, s \in {0, 1}}

NotAfters ==
    {t \in {Time(y, m, d, s) :
                y \in {2022, 2023}, m \in 1..12,
                d \in {1, 2, 28, 29, 30, 31}, s \in {0, 1}} :
        t.day <= (daysBefore[t.month + 1] - daysBefore[t.month])
                   + (IF isLeap(t.year) /\ t.month = 2 THEN 1 ELSE 0)}

\* certificates that differ in validity period and policies
DateCerts ==
    [subject    : {{CommonNameOID, OrganizationNameOID}},
     policies   : SUBSET {EvPolicyOID, DvPolicyOID},
     NotBefore  : NotBefores,
     NotAfter   : NotAfters,
     isCA       : {FALSE},
     selfSigned : {FALSE},
     extensions : {<<>>}]

\* certificates that differ in subject, CA status and extensions
StructCerts ==
    [subject    : SUBSET SubjectTypes,
     policies   : {{}, {EvPolicyOID}},
     NotBefore  : {Time(2020, 1, 1, 0)},
     NotAfter   : {Time(2022, 3, 1, 0)},
     isCA       : BOOLEAN,
     selfSigned : BOOLEAN,
     extensions : SeqUpTo(Extensions, MaxExts)]

InitLint ==
    /\ cert \in DateCerts \cup StructCerts
    /\ lintOut = <<>>
    /\ IdleRT /\ IdleMain

LintCertificate ==
    /\ lintOut = <<>>
    /\ lintOut' = [name \in RegisteredLints |-> ExecuteTest(name, cert)]
    /\ UNCHANGED cert
    /\ UNCHANGED rtVars /\ UNCHANGED mainVars

NextLint == LintCertificate

SpecLint == InitLint /\ [][NextLint]_vars

-----------------------------------------------------------------------------
(* Properties of the lints                                                 *)

LintsRan == lintOut # <<>>

HasPostal == PostalCodeOID \in cert.subject
HasOrg    == OrganizationNameOID \in cert.subject

\* C7: subject_postal_without_org applies to every certificate, and RunTest
\* returns Error with a nil error iff the subject has a postalCode and no
\* organizationName, and Pass with a nil error in every other case.
C7_PostalWithoutOrg ==
    LintsRan =>
        LET o == lintOut["subject_postal_without_org"]
        IN  /\ o.applies
            /\ ~o.result.panic
            /\ o.result.err = Nil
            /\ (HasPostal /\ ~HasOrg) => o.result.Result = Error
            /\ ~(HasPostal /\ ~HasOrg) => o.result.Result = Pass

\* a subject with a postal code and no organization got Error
C7_Witness ==
    /\ LintsRan
    /\ HasPostal /\ ~HasOrg
    /\ lintOut["subject_postal_without_org"].result.Result = Error

\* days from 1970-01-01 to the civil date y-m-d, by the era / day-of-era
\* computation (m in 1..12, d a day count from the first of the month)
DaysFromCivil(y, m, d) ==
    LET yy  == IF m <= 2 THEN y - 1 ELSE y
        era == yy \div 400
        yoe == yy - era * 400
        mp  == IF m > 2 THEN m - 3 ELSE m + 9
        doy == ((153 * mp + 2) \div 5) + d - 1
        doe == yoe * 365 + (yoe \div 4) - (yoe \div 100) + doy
    IN  era * 146097 + doe - 719468

\* the instant n calendar months after t: the same day count and time of day,
\* from the first of the month n months on (a day the month does not have
\* runs on into the next month)
MonthsLater(t, n) ==
    LET mi == 12 * t.year + (t.month - 1) + n
    IN  DaysFromCivil(mi \div 12, (mi % 12) + 1, t.day) * 86400 + t.sec

Instant(t) == DaysFromCivil(t.year, t.month, t.day) * 86400 + t.sec

\* C8: ev_valid_time_too_long applies iff a policy identifier marks the
\* certificate as EV; for such a certificate RunTest returns Error iff
\* notAfter is strictly later than notBefore plus 27 calendar months and Pass
\* otherwise: 2020-01-01 to 2022-06-01 is Error, to 2022-03-01 is Pass, and to
\* 2022-04-01 (exactly 27 months) is Pass.
C8_EvValidTooLong ==
    LintsRan =>
        LET o  == lintOut["ev_valid_time_too_long"]
            nb == cert.NotBefore
            na == cert.NotAfter
        IN  /\ o.applies <=> (cert.policies \cap {EvPolicyOID} # {})
            /\ o.applies =>
                  /\ ~o.result.panic /\ o.result.err = Nil
                  /\ o.result.Result \in {Error, Pass}
                  /\ o.result.Result = Error <=> Instant(na) > MonthsLater(nb, 27)
                  /\ nb = Time(2020, 1, 1, 0) =>
                        /\ na = Time(2022, 6, 1, 0) => o.result.Result = Error
                        /\ na = Time(2022, 3, 1, 0) => o.result.Result = Pass
                        /\ na = Time(2022, 4, 1, 0) => o.result.Result = Pass
                        /\ na = Time(2022, 4, 1, 1) => o.result.Result = Error

\* an EV certificate valid for exactly 27 months passed
C8_Witness ==
    /\ LintsRan
    /\ lintOut["ev_valid_time_too_long"].applies
    /\ cert.NotBefore = Time(2020, 1, 1, 0)
    /\ cert.NotAfter = Time(2022, 4, 1, 0)
    /\ lintOut["ev_valid_time_too_long"].result.Result = Pass

\* the positions of the nameConstraints extensions of the certificate
NameConstAt == {i \in DOMAIN cert.extensions : cert.extensions[i].Id = NameConstOID}

\* C9: sub_ca_name_constraints_not_critical applies iff the certificate is a
\* subordinate CA certificate with a nameConstraints extension; where it
\* applies RunTest finds the extension (no nil dereference) and returns Pass
\* iff the extension (the first, where there are several) is critical and
\* Warn otherwise, with a nil error.
C9_NameConstraintsNotCritical ==
    LintsRan =>
        LET o == lintOut["sub_ca_name_constraints_not_critical"]
        IN  /\ o.applies <=>
                  (cert.isCA /\ ~cert.selfSigned /\ NameConstAt # {})
            /\ o.applies =>
                  /\ ~o.result.panic
                  /\ o.result.err = Nil
                  /\ o.result.Result \in {Pass, Warn}
                  /\ \E i \in NameConstAt :
                        /\ \A j \in NameConstAt : i <= j
                        /\ o.result.Result = Pass <=> cert.extensions[i].Critical

\* a subordinate CA whose nameConstraints extension, its second extension,
\* is not critical got Warn
C9_Witness ==
    /\ LintsRan
    /\ lintOut["sub_ca_name_constraints_not_critical"].applies
    /\ NameConstAt = {2}
    /\ ~cert.extensions[2].Critical
    /\ lintOut["sub_ca_name_constraints_not_critical"].result.Result = Warn

-----------------------------------------------------------------------------
(* Strings of the command line                                             *)
(* A flag that holds a list is a sequence of tokens: a name, "," or " ".   *)

\* strings.Split(raw, sep): the pieces between separators, at least one
RECURSIVE SplitFrom(_, _, _, _)
SplitFrom(rest, sep, cur, acc) ==
    IF rest = <<>> THEN Append(acc, cur)
    ELSE IF Head(rest) = sep
         THEN SplitFrom(Tail(rest), sep, <<>>, Append(acc, cur))
         ELSE SplitFrom(Tail(rest), sep, Append(cur, Head(rest)), acc)

Split(raw, sep) == SplitFrom(raw, sep, <<>>, <<>>)

\* strings.TrimSpace: leading and trailing spaces removed
RECURSIVE TrimLeft(_)
TrimLeft(str) ==
    IF str # <<>> /\ Head(str) = " " THEN TrimLeft(Tail(str)) ELSE str

RECURSIVE TrimRight(_)
TrimRight(str) ==
    IF str # <<>> /\ str[Len(str)] = " "
    THEN TrimRight(SubSeq(str, 1, Len(str) - 1))
    ELSE str

TrimSpace(str) == TrimRight(TrimLeft(str))

\* trimmedList: raw split by comma, each element trimmed
trimmedList(raw) ==
    LET parts == Split(raw, ",")
    IN  [i \in 1..Len(parts) |-> TrimSpace(parts[i])]

\* strings.ToLower on the values -format is given
ToLower(str) ==
    CASE str = "DER" -> "der"
      [] str = "PEM" -> "pem"
      [] OTHER -> str

\* regexp.Compile: an error for a pattern that does not parse
BadRegexps == {"("}
RegexpCompile(pattern) ==
    IF pattern \in BadRegexps
    THEN [re |-> "", err |-> "error parsing regexp"]
    ELSE [re |-> pattern, err |-> Nil]

\* whether a compiled pattern matches a lint name
MatchString(re, name) ==
    CASE re = "postal" -> name = "subject_postal_without_org"
      [] re = "^ev_"   -> name = "ev_valid_time_too_long"
      [] OTHER -> FALSE

-----------------------------------------------------------------------------
(* The registry and its filter                                             *)

\* the source of each registered lint (its Providence)
LintSource(name) ==
    CASE name = "ev_valid_time_too_long" -> ""
      [] name = "sub_ca_name_constraints_not_critical" -> "CAB"
      [] name = "subject_postal_without_org" -> "CAB"

KnownSources == {"CAB", "RFC5280"}

\* lint.GlobalRegistry()
GlobalRegistry == RegisteredLints

\* SourceList.FromString: an error for a source that is not known
SourceListFromString(raw) ==
    IF raw \in KnownSources
    THEN [list |-> {raw}, err |-> Nil]
    ELSE [list |-> {}, err |-> "unknown lint source"]

\* lint.FilterOptions{}
EmptyFilterOptions ==
    [NameFilter     |-> "",
     hasNameFilter  |-> FALSE,
     IncludeNames   |-> <<>>,
     ExcludeNames   |-> <<>>,
     IncludeSources |-> {},
     ExcludeSources |-> {}]

\* Registry.Filter: a name filter together with a name list is a
\* configuration error; otherwise the rules that match the name filter, or
\* else the included rules less the excluded ones
Filter(reg, opts) ==
    IF opts.hasNameFilter
         /\ (Len(opts.IncludeNames) # 0 \/ Len(opts.ExcludeNames) # 0)
    THEN [registry |-> {}, isNil |-> TRUE,
          err |-> "NameFilter cannot be used with IncludeNames or ExcludeNames"]
    ELSE LET named(l, list) == \E i \in DOMAIN list : list[i] = <<l>>
             kept ==
                 IF opts.hasNameFilter
                 THEN {l \in reg : MatchString(opts.NameFilter, l)}
                 ELSE {l \in reg :
                         /\ Len(opts.IncludeNames) # 0 => named(l, opts.IncludeNames)
                         /\ opts.IncludeSources # {} =>
                                LintSource(l) \in opts.IncludeSources
                         /\ ~named(l, opts.ExcludeNames)
                         /\ LintSource(l) \notin opts.ExcludeSources}
         IN  [registry |-> kept, isNil |-> FALSE, err |-> Nil]

-----------------------------------------------------------------------------
(* setLints                                                                *)

\* what setLints gives: a registry and a nil error, a nil registry and an
\* error, or the end of the process (log.Fatalf)
SetLintsOk(reg)  == [kind |-> "ok", registry |-> reg, isNil |-> FALSE]
SetLintsErr      == [kind |-> "error", registry |-> {}, isNil |-> TRUE]
SetLintsFatal    == [kind |-> "fatal", registry |-> {}, isNil |-> TRUE]

\* the filter options setLints builds once the name filter compiled and the
\* source lists parsed
FilterOptsOf(f, re, excl, incl) ==
    [NameFilter     |-> IF f.nameFilter # "" THEN re ELSE "",
     hasNameFilter  |-> f.nameFilter # "",
     ExcludeSources |-> IF f.excludeSources # "" THEN excl ELSE {},
     IncludeSources |-> IF f.includeSources # "" THEN incl ELSE {},
     ExcludeNames   |-> IF f.excludeNames # <<>>
                        THEN trimmedList(f.excludeNames) ELSE <<>>,
     IncludeNames   |-> IF f.includeNames # <<>>
                        THEN trimmedList(f.includeNames) ELSE <<>>]

\* setLints that leaves the name lists out of the filter options
setLintsWithoutNames(f) ==
    IF f.nameFilter = "" /\ f.includeNames = <<>> /\ f.excludeNames = <<>>
         /\ f.includeSources = "" /\ f.excludeSources = ""
    THEN SetLintsOk(GlobalRegistry)
    ELSE LET r    == RegexpCompile(f.nameFilter)
             excl == SourceListFromString(f.excludeSources)
             incl == SourceListFromString(f.includeSources)
         IN  IF f.nameFilter # "" /\ r.err # Nil THEN SetLintsErr
             ELSE IF f.excludeSources # "" /\ excl.err # Nil THEN SetLintsFatal
             ELSE IF f.includeSources # "" /\ incl.err # Nil THEN SetLintsFatal
             ELSE LET opts == [FilterOptsOf(f, r.re, excl.list, incl.list)
                                 EXCEPT !.ExcludeNames = <<>>,
                                        !.IncludeNames = <<>>]
                      got  == Filter(GlobalRegistry, opts)
                  IN  IF got.err # Nil THEN SetLintsErr
                      ELSE SetLintsOk(got.registry)

setLints(f) ==
    IF f.nameFilter = "" /\ f.includeNames = <<>> /\ f.excludeNames = <<>>
         /\ f.includeSources = "" /\ f.excludeSources = ""
    THEN SetLintsOk(GlobalRegistry)
    ELSE LET r    == RegexpCompile(f.nameFilter)
             excl == SourceListFromString(f.excludeSources)
             incl == SourceListFromString(f.includeSources)
         IN  IF f.nameFilter # "" /\ r.err # Nil THEN SetLintsErr
             ELSE IF f.excludeSources # "" /\ excl.err # Nil THEN SetLintsFatal
             ELSE IF f.includeSources # "" /\ incl.err # Nil THEN SetLintsFatal
             ELSE LET got == Filter(GlobalRegistry,
                                    FilterOptsOf(f, r.re, excl.list, incl.list))
                  IN  IF got.err # Nil THEN SetLintsErr
                      ELSE SetLintsOk(got.registry)

-----------------------------------------------------------------------------
(* Files and doLint                                                        *)

\* what a file holds: whether it can be read, how its bytes are encoded, the
\* type of its PEM block, and whether the DER inside is a certificate
Content(readable, enc, pemType, der) ==
    [readable |-> readable, enc |-> enc, pemType |-> pemType, der |-> der]

PemCert    == Content(TRUE, "pem", "CERTIFICATE", "cert")
PemCrl     == Content(TRUE, "pem", "X509 CRL", "junk")
DerCert    == Content(TRUE, "der", "", "cert")
DerJunk    == Content(TRUE, "der", "", "junk")
B64Cert    == Content(TRUE, "base64", "", "cert")
Unreadable == Content(FALSE, "der", "", "junk")

\* an event of the process: what was done, and for which file argument
\* (0: standard input, or no file at all)
Event(op, i) == [op |-> op, i |-> i]

\* pem.Decode: the first PEM block, or nil
PemDecode(bytes) ==
    IF bytes.enc = "pem"
    THEN AddrOf([Type |-> bytes.pemType, Bytes |-> bytes.der])
    ELSE NilPtr

\* base64.StdEncoding.DecodeString
Base64Decode(bytes) ==
    IF bytes.enc = "base64"
    THEN [data |-> bytes.der, err |-> Nil]
    ELSE [data |-> "junk", err |-> "illegal base64 data"]

\* the bytes of the file taken as DER
RawDer(bytes) == IF bytes.enc = "der" THEN bytes.der ELSE "junk"

\* x509.ParseCertificate
ParseCertificate(asn1Data) ==
    IF asn1Data = "cert" THEN Nil ELSE "asn1: structure error"

\* the report doLint writes for the flags
ReportOp(f) ==
    IF f.prettyprint THEN "writePretty"
    ELSE IF f.summary THEN "writeSummary"
    ELSE IF f.longSummary THEN "writeLongSummary"
    ELSE "writeJSON"

\* doLint(inputFile, inform, registry) for file argument i, after the events
\* ev: the events after it, and whether it ended the process (log.Fatal)
doLint(ev, i, file, inform, f) ==
    LET ev1  == Append(ev, Event("read", i))
        p    == PemDecode(file)
        b64  == Base64Decode(file)
        fail == [events |-> ev1, fatal |-> TRUE]
        asn1 == CASE inform = "pem"    -> Deref(p).Bytes
                  [] inform = "der"    -> RawDer(file)
                  [] inform = "base64" -> b64.data
    IN  IF ~file.readable THEN fail
        ELSE IF inform = "pem" /\ (p = NilPtr \/ Deref(p).Type # "CERTIFICATE")
             THEN fail
        ELSE IF inform = "base64" /\ b64.err # Nil THEN fail
        ELSE IF inform \notin {"pem", "der", "base64"} THEN fail
        ELSE IF ParseCertificate(asn1) # Nil THEN fail
        ELSE [events |-> ev1 \o <<Event("lint", i), Event(ReportOp(f), i),
                                   Event("newline", i)>>,
              fatal  |-> FALSE]

\* strings.HasSuffix on a path argument
HasSuffix(arg, suffix) == arg.suffix = suffix

\* one iteration of main's loop over flag.Args() that goes on to the next
\* argument when a file cannot be opened
FileIterationSkipsMissing(ev, i, arg, inform, f) ==
    LET ev1 == Append(ev, Event("open", i))
        fileInform ==
            IF HasSuffix(arg, ".der") THEN "der"
            ELSE IF HasSuffix(arg, ".pem") THEN "pem"
            ELSE inform
        linted == doLint(ev1, i, arg.file, fileInform, f)
    IN  IF ~arg.exists THEN [events |-> ev1, fatal |-> FALSE]
        ELSE IF linted.fatal THEN linted
        ELSE [events |-> Append(linted.events, Event("close", i)),
              fatal  |-> FALSE]

\* one iteration of main's loop over flag.Args(): open, pick the format,
\* doLint, close
FileIteration(ev, i, arg, inform, f) ==
    LET ev1 == Append(ev, Event("open", i))
        fileInform ==
            IF HasSuffix(arg, ".der") THEN "der"
            ELSE IF HasSuffix(arg, ".pem") THEN "pem"
            ELSE inform
        linted == doLint(ev1, i, arg.file, fileInform, f)
    IN  IF ~arg.exists THEN [events |-> ev1, fatal |-> TRUE]
        ELSE IF linted.fatal THEN linted
        ELSE [events |-> Append(linted.events, Event("close", i)),
              fatal  |-> FALSE]

\* main after setLints that ends the process only where setLints itself did
AfterSetLintsIgnoringErr(out) ==
    IF out.kind = "fatal" THEN "fatal" ELSE "configured"

\* main after setLints: log.Fatalf on an error
AfterSetLints(out) ==
    IF out.kind = "ok" THEN "configured" ELSE "fatal"

-----------------------------------------------------------------------------
(* The main process                                                        *)

NameLists ==
    {<<>>,
     <<" ">>,
     <<"subject_postal_without_org">>,
     <<"ev_valid_time_too_long", ",", " ", "subject_postal_without_org", " ">>}

NoOutputFlags == [prettyprint |-> FALSE, summary |-> FALSE, longSummary |-> FALSE]

OutputFlags ==
    {NoOutputFlags,
     [prettyprint |-> TRUE, summary |-> TRUE, longSummary |-> FALSE],
     [prettyprint |-> FALSE, summary |-> TRUE, longSummary |-> TRUE],
     [prettyprint |-> FALSE, summary |-> FALSE, longSummary |-> TRUE]}

Flags(nf, inN, exN, inS, exS, lj, ls, fmt, out) ==
    [nameFilter      |-> nf,
     includeNames    |-> inN,
     excludeNames    |-> exN,
     includeSources  |-> inS,
     excludeSources  |-> exS,
     listLintsJSON   |-> lj,
     listLintSources |-> ls,
     format          |-> fmt,
     prettyprint     |-> out.prettyprint,
     summary         |-> out.summary,
     longSummary     |-> out.longSummary]

\* a path argument and the file behind it
Arg(name, suffix, exists, file) ==
    [name |-> name, suffix |-> suffix, exists |-> exists, file |-> file]

Dash == Arg("-", "", FALSE, Unreadable)

FileArgs ==
    {Arg("cert", ".pem", TRUE, c) : c \in {PemCert, PemCrl, DerCert}}
    \cup {Arg("cert", ".der", TRUE, c) : c \in {DerCert, DerJunk, PemCert}}
    \cup {Arg("cert", "", TRUE, c) : c \in {PemCert, DerCert, B64Cert, Unreadable}}
    \cup {Arg("missing", ".pem", FALSE, Unreadable), Dash}

\* runs that differ in the filter and listing flags
FilterRuns ==
    {[flags |-> Flags(nf, inN, exN, inS, exS, lj, ls, "pem", NoOutputFlags),
      args  |-> a] :
        nf \in {"", "postal", "("},
        inN \in NameLists, exN \in {<<>>, <<"subject_postal_without_org">>},
        inS \in {"", "CAB", "bogus"}, exS \in {"", "RFC5280", "bogus"},
        lj \in BOOLEAN, ls \in BOOLEAN,
        a \in SeqUpTo({Arg("cert", ".pem", TRUE, PemCert)}, MaxFiles)}

\* runs that differ in the files, the format and the output flags
FileRuns ==
    {[flags |-> Flags("", <<>>, <<>>, "", "", FALSE, FALSE, fmt, out),
      args  |-> a] :
        fmt \in {"pem", "DER", "base64", "xml"},
        out \in OutputFlags,
        a \in SeqUpTo(FileArgs, MaxFiles)}

InitMain ==
    /\ \E run \in FilterRuns \cup FileRuns :
          flags = run.flags /\ args = run.args
    /\ stdin \in {PemCert, DerCert}
    /\ pc = "start"
    /\ idx = 1
    /\ setLintsOut = [kind |-> "none", registry |-> {}, isNil |-> TRUE]
    /\ events = <<>>
    /\ IdleRT /\ IdleLint

\* registry, err := setLints(); if err != nil { log.Fatalf }
Startup ==
    /\ pc = "start"
    /\ setLintsOut' = setLints(flags)
    /\ pc' = AfterSetLints(setLintsOut')
    /\ UNCHANGED <<flags, args, stdin, idx, events>>
    /\ UNCHANGED rtVars /\ UNCHANGED lintVars

\* if listLintsJSON { registry.WriteJSON(os.Stdout); return }
ListLintsJSON ==
    /\ pc = "configured"
    /\ flags.listLintsJSON
    /\ events' = Append(events, Event("listJSON", 0))
    /\ pc' = "done"
    /\ UNCHANGED <<flags, args, stdin, idx, setLintsOut>>
    /\ UNCHANGED rtVars /\ UNCHANGED lintVars

\* if listLintSources { ...print the sorted sources...; return }
ListLintSources ==
    /\ pc = "configured"
    /\ ~flags.listLintsJSON
    /\ flags.listLintSources
    /\ events' = Append(events, Event("listSources", 0))
    /\ pc' = "done"
    /\ UNCHANGED <<flags, args, stdin, idx, setLintsOut>>
    /\ UNCHANGED rtVars /\ UNCHANGED lintVars

Listing == IF flags.listLintsJSON THEN TRUE ELSE flags.listLintSources

\* flag.NArg() < 1 || flag.Arg(0) == "-"
FromStdin == IF Len(args) < 1 THEN TRUE ELSE args[1].name = "-"

\* doLint(os.Stdin, inform, registry)
LintStdin ==
    /\ pc = "configured"
    /\ ~Listing
    /\ FromStdin
    /\ LET done == doLint(events, 0, stdin, ToLower(flags.format), flags)
       IN  /\ events' = done.events
           /\ pc' = IF done.fatal THEN "fatal" ELSE "done"
    /\ UNCHANGED <<flags, args, stdin, idx, setLintsOut>>
    /\ UNCHANGED rtVars /\ UNCHANGED lintVars

\* the body of `for _, filePath := range flag.Args()` for argument idx
LintFile ==
    /\ pc = "configured"
    /\ ~Listing
    /\ ~FromStdin
    /\ idx <= Len(args)
    /\ LET done == FileIteration(events, idx, args[idx],
                                 ToLower(flags.format), flags)
       IN  /\ events' = done.events
           /\ pc' = IF done.fatal THEN "fatal" ELSE "configured"
    /\ idx' = idx + 1
    /\ UNCHANGED <<flags, args, stdin, setLintsOut>>
    /\ UNCHANGED rtVars /\ UNCHANGED lintVars

\* the loop is over: main returns
Return ==
    /\ pc = "configured"
    /\ ~Listing
    /\ ~FromStdin
    /\ idx > Len(args)
    /\ pc' = "done"
    /\ UNCHANGED <<flags, args, stdin, idx, setLintsOut, events>>
    /\ UNCHANGED rtVars /\ UNCHANGED lintVars

NextMain ==
    \/ Startup
    \/ ListLintsJSON
    \/ ListLintSources
    \/ LintStdin
    \/ LintFile
    \/ Return

SpecMain == InitMain /\ [][NextMain]_vars

-----------------------------------------------------------------------------
(* Properties of main                                                      *)

Started == pc # "start"

\* the operations on certificate input, and the listings
InputOps   == {"open", "read", "lint", "close"}
ListingOps == {"listJSON", "listSources"}
ReportOps  == {"writeJSON", "writePretty", "writeSummary", "writeLongSummary"}

\* the filter flags hold a configuration error: a name filter that is no
\* regular expression, a source list with an unknown source, or a name
\* filter given together with a name list
BadNameFilter == flags.nameFilter = "("
BadSources ==
    \/ flags.includeSources \notin {"", "CAB", "RFC5280"}
    \/ flags.excludeSources \notin {"", "CAB", "RFC5280"}
NameFilterWithNames ==
    /\ flags.nameFilter # ""
    /\ (flags.includeNames # <<>> \/ flags.excludeNames # <<>>)

ConfigError == BadNameFilter \/ BadSources \/ NameFilterWithNames

\* C5: a configuration error in the filter flags ends the process at
\* startup: nothing is listed, and no certificate input is opened, read or
\* linted. The same holds whenever setLints gave main no registry.
C5_ConfigErrorIsFatal ==
    Started =>
        /\ ConfigError => pc = "fatal" /\ events = <<>>
        /\ setLintsOut.kind # "ok" => pc = "fatal" /\ events = <<>>

\* a run with a listing flag and a file argument that ended on a bad
\* -nameFilter
C5_Witness ==
    /\ pc = "fatal"
    /\ BadNameFilter
    /\ flags.listLintsJSON
    /\ Len(args) > 0
    /\ setLintsOut.kind = "error"
    /\ events = <<>>

\* C6: whenever -nameFilter comes with a non-empty -includeNames or
\* -excludeNames, setLints gives a configuration error and no registry.
C6_NameFilterExcludesNameLists ==
    (Started /\ NameFilterWithNames) =>
        /\ setLintsOut.kind \in {"error", "fatal"}
        /\ setLintsOut.isNil
        /\ setLintsOut.registry = {}

\* a valid name filter with an include list, and nothing else wrong
C6_Witness ==
    /\ Started
    /\ flags.nameFilter = "postal"
    /\ flags.includeNames = <<"subject_postal_without_org">>
    /\ flags.excludeNames = <<>>
    /\ ~BadSources
    /\ setLintsOut.kind = "error"
    /\ pc = "fatal"

\* the positions of the events of an operation on file argument i
At(ops, i) == {q \in DOMAIN events : events[q].op \in ops /\ events[q].i = i}

\* the format doLint is given for an argument
InformOf(arg) ==
    IF arg.suffix = ".der" THEN "der"
    ELSE IF arg.suffix = ".pem" THEN "pem"
    ELSE IF flags.format \in {"pem", "PEM"} THEN "pem"
    ELSE IF flags.format \in {"der", "DER"} THEN "der"
    ELSE flags.format

\* the argument names a file that opens, reads, decodes in its input format
\* and parses as a certificate
Lintable(arg) ==
    /\ arg.exists
    /\ arg.file.readable
    /\ arg.file.der = "cert"
    /\ arg.file.enc = InformOf(arg)
    /\ arg.file.enc = "pem" => arg.file.pemType = "CERTIFICATE"

\* C10: without a listing flag main lints the file arguments one after the
\* other in command-line order: the events of the arguments come in
\* ascending order of argument, each argument is opened and linted at most
\* once, a lint is followed at once by its report and a newline, and the
\* report and newline of argument i come before argument i+1 is opened; at a
\* file that cannot be opened, read, decoded or parsed the process ends and
\* no later argument is touched; a run that returns has linted every
\* argument. With a listing flag one listing is written and no certificate is
\* opened, read or linted.
C10_SequentialLinting ==
    /\ \A q \in DOMAIN events :
          events[q].op \in ListingOps \cup InputOps \cup ReportOps \cup {"newline"}
    /\ Listing =>
          /\ \A q \in DOMAIN events : events[q].op \in ListingOps
          /\ Len(events) <= 1
          /\ pc = "done" => Len(events) = 1
    /\ ~Listing =>
          /\ \A q \in DOMAIN events : events[q].op \notin ListingOps
          /\ \A q1, q2 \in DOMAIN events : q1 < q2 => events[q1].i <= events[q2].i
          /\ \A i \in 0..Len(args) :
                /\ Cardinality(At({"lint"}, i)) <= 1
                /\ Cardinality(At({"open"}, i)) <= 1
                /\ Cardinality(At({"read"}, i)) <= 1
          /\ \A q \in DOMAIN events :
                events[q].op = "lint" =>
                    /\ q + 2 <= Len(events)
                    /\ events[q + 1].op \in ReportOps
                    /\ events[q + 1].i = events[q].i
                    /\ events[q + 2] = Event("newline", events[q].i)
          /\ \A q \in DOMAIN events :
                (events[q].op = "open" /\ events[q].i > 1) =>
                    \E r \in 1..(q - 1) :
                        /\ events[r].op \in ReportOps
                        /\ events[r].i = events[q].i - 1
                        /\ events[r + 1] = Event("newline", events[q].i - 1)
                        /\ r + 1 < q
          /\ ~FromStdin =>
                /\ At(InputOps, 0) = {}
                /\ \A i \in 1..Len(args) :
                      ~Lintable(args[i]) =>
                          /\ At({"lint"}, i) = {}
                          /\ \A q \in DOMAIN events : events[q].i <= i
                          /\ At({"open"}, i) # {} => pc = "fatal"
                /\ pc = "done" =>
                      \A i \in 1..Len(args) : Cardinality(At({"lint"}, i)) = 1
          /\ FromStdin =>
                \A q \in DOMAIN events : events[q].i = 0

\* the first file was linted, the second was read and ended the process
C10_Witness ==
    /\ ~Listing
    /\ Len(args) = 2
    /\ Lintable(args[1])
    /\ ~Lintable(args[2]) /\ args[2].exists
    /\ At({"lint"}, 1) # {}
    /\ At({"read"}, 2) # {}
    /\ pc = "fatal"

=============================================================================
